---- MODULE Spec2Model ----
(***************************************************************************)
(* The AppStore contract (registry, version ledger, purchase ledger and    *)
(* payment distributor) as a state machine.  One action per external       *)
(* function of the contract; purchaseApp is split at its outbound value    *)
(* transfers, where control passes to the receiver and the receiver's      *)
(* callback may call back into the contract before it returns.             *)
(*                                                                         *)
(* A revert restores the storage and the balances of the whole             *)
(* transaction.  Amounts are far below 2^256 (no balance can hold such a   *)
(* value), so the checked arithmetic of the contract never overflows and   *)
(* integers are modelled unbounded.  block.timestamp is the same for every *)
(* call of a transaction and moves on between transactions.  The events of *)
(* a call are kept until its caller resumes.                               *)
(***************************************************************************)
EXTENDS Integers, Sequences, FiniteSets, TLC

VARIABLES
    apps,          \* mapping(bytes32 => App)
    versions,      \* mapping(bytes32 => Version[])
    hasPurchased,  \* mapping(address => mapping(bytes32 => bool))
    purchases,     \* mapping(bytes32 => Purchase[])
    platformFee,   \* fee in basis points
    feeCollector,  \* address receiving the fees
    totalApps,     \* number of registered apps
    balance,       \* native balance of every account and of the contract
    entered,       \* the reentrancy lock of purchaseApp
    frame,         \* the purchaseApp call in flight, Idle when there is none
    saved,         \* <<state at the start of the transaction in flight>>
    last,          \* the call that has just returned (what it was, how it ended),
                   \* None once its caller has resumed
    emitted,       \* the events that call has emitted, in order
    now            \* block.timestamp

storage == <<apps, versions, hasPurchased, purchases, platformFee, feeCollector, totalApps>>
vars == <<apps, versions, hasPurchased, purchases, platformFee, feeCollector, totalApps,
          balance, entered, frame, saved, last, emitted, now>>

(***************************** bounds and inputs ***************************)

MaxVersionCode == 1
MaxLedgerVersionCode == 3
MaxDownloads == 2
MaxNested == 1
InitialBalance == 60
MaxTime == 3

owner == "owner"
ZeroAddress == "0x0"
Store == "store"
Addresses == {"owner", "alice", "bob"}
Slugs == {"", "a"}

(* the inputs of Spec: every operation, the payment cases in full *)
Cids == {"", "c1"}
VersionCodes == 1..MaxVersionCode
Prices == {0, 50}
Payments == {0, 50, 51}
Fees == {0, 1000, 1001}

(* the inputs of SpecLedger: the registry and the version ledger in full *)
LedgerCids == {"", "c1", "c2"}
LedgerVersionCodes == 1..MaxLedgerVersionCode

(***************************** program constants ***************************)

DefaultPlatformFee == 250
MaxPlatformFee == 1000
BasisPoints == 10000

(* the revert reasons of the contract, under the names the design gives them *)
Ok == "ok"
DuplicateSlug == "App slug already exists"
EmptySlug == "Slug cannot be empty"
EmptyContentRef == "Manifest CID cannot be empty"
NotFound == "App does not exist"
NotPublisher == "Not the publisher"
NotOwner == "OwnableUnauthorizedAccount"
NonMonotonicVersion == "Version code must be greater than previous"
InvalidIndex == "Invalid version index"
Inactive == "App is not active"
AlreadyPurchased == "Already purchased"
InsufficientPayment == "Insufficient payment"
PublisherTransferFailed == "Transfer to publisher failed"
FeeTransferFailed == "Transfer fee failed"
RefundFailed == "Refund failed"
Reentrant == "ReentrancyGuardReentrantCall"
FeeTooHigh == "Fee too high (max 10%)"
InvalidAddress == "Invalid address"
NotAuthorized == {NotPublisher, NotOwner}
TransferFailed == {PublisherTransferFailed, FeeTransferFailed, RefundFailed}

(******************************** records **********************************)

NoApp ==
    [publisher |-> ZeroAddress, slug |-> "", latestManifestCid |-> "", priceWei |-> 0,
     totalDownloads |-> 0, totalRevenue |-> 0, exists |-> FALSE, active |-> FALSE,
     createdAt |-> 0]

Idle ==
    [pc |-> "idle", sender |-> ZeroAddress, slug |-> "", value |-> 0, price |-> 0,
     fee |-> 0, publisherAmount |-> 0, to |-> ZeroAddress, nested |-> 0, sent |-> <<>>]

Snapshot ==
    [apps |-> apps, versions |-> versions, hasPurchased |-> hasPurchased,
     purchases |-> purchases, platformFee |-> platformFee, feeCollector |-> feeCollector,
     totalApps |-> totalApps, balance |-> balance]

None == [op |-> "none", sender |-> ZeroAddress, args |-> <<>>, result |-> "none"]

Returned(op, sender, args, result) ==
    [op |-> op, sender |-> sender, args |-> args, result |-> result]

Init ==
    /\ apps = [s \in Slugs |-> NoApp]
    /\ versions = [s \in Slugs |-> <<>>]
    /\ hasPurchased = [a \in Addresses |-> [s \in Slugs |-> FALSE]]
    /\ purchases = [s \in Slugs |-> <<>>]
    /\ platformFee = DefaultPlatformFee
    /\ feeCollector = owner
    /\ totalApps = 0
    /\ balance = [a \in Addresses \cup {Store} |-> IF a = "bob" THEN InitialBalance ELSE 0]
    /\ entered = FALSE
    /\ frame = Idle
    /\ saved = <<>>
    /\ last = None
    /\ emitted = <<>>
    /\ now = 1

(************************ calls and nested calls ***************************)

(* A call is made by an account between transactions, or by the receiver   *)
(* of an outbound transfer from within its callback.                        *)
CanCall(sender) ==
    /\ last = None
    /\ IF frame.pc = "idle" THEN TRUE
       ELSE sender = frame.to /\ frame.nested < MaxNested

Called == IF frame.pc = "idle" THEN frame ELSE [frame EXCEPT !.nested = @ + 1]

(********************************* events **********************************)

(* An event with its arguments in the order of its declaration.  The key   *)
(* of an app is the hash of its slug and stands for the slug here.         *)
AppRegistered(slug, publisher, manifestCid, priceWei) ==
    [event |-> "AppRegistered", args |-> <<slug, slug, publisher, manifestCid, priceWei>>]

VersionPublished(slug, manifestCid, versionCode) ==
    [event |-> "VersionPublished", args |-> <<slug, manifestCid, versionCode>>]

AppPurchased(slug, buyer, amountPaid, fee) ==
    [event |-> "AppPurchased", args |-> <<slug, buyer, amountPaid, fee>>]

AppDownloaded(slug, downloader) ==
    [event |-> "AppDownloaded", args |-> <<slug, downloader>>]

AppUpdated(slug, newPrice) == [event |-> "AppUpdated", args |-> <<slug, newPrice>>]

AppStatusChanged(slug, active) == [event |-> "AppStatusChanged", args |-> <<slug, active>>]

PlatformFeeUpdated(newFee) == [event |-> "PlatformFeeUpdated", args |-> <<newFee>>]

FeeCollectorUpdated(newCollector) ==
    [event |-> "FeeCollectorUpdated", args |-> <<newCollector>>]

(****************************** registerApp ********************************)

(* mutant: the slug is not looked up before the app is written *)
registerCheck_noLookup(slug, manifestCid) ==
    IF slug = "" THEN EmptySlug
    ELSE IF manifestCid = "" THEN EmptyContentRef
    ELSE Ok

registerCheck(slug, manifestCid) ==
    IF apps[slug].exists THEN DuplicateSlug
    ELSE IF slug = "" THEN EmptySlug
    ELSE IF manifestCid = "" THEN EmptyContentRef
    ELSE Ok

(* mutant: the app is created deactivated *)
newApp_inactive(sender, slug, manifestCid, priceWei) ==
    [publisher |-> sender, slug |-> slug, latestManifestCid |-> manifestCid,
     priceWei |-> priceWei, totalDownloads |-> 0, totalRevenue |-> 0, exists |-> TRUE,
     active |-> FALSE, createdAt |-> now]

newApp(sender, slug, manifestCid, priceWei) ==
    [publisher |-> sender, slug |-> slug, latestManifestCid |-> manifestCid,
     priceWei |-> priceWei, totalDownloads |-> 0, totalRevenue |-> 0, exists |-> TRUE,
     active |-> TRUE, createdAt |-> now]

newVersion(manifestCid, versionCode) ==
    [manifestCid |-> manifestCid, timestamp |-> now, versionCode |-> versionCode,
     deprecated |-> FALSE]

registerApp(sender, slug, manifestCid, priceWei, versionCode) ==
    /\ CanCall(sender)
    /\ UNCHANGED now
    /\ frame' = Called
    /\ last' = Returned("registerApp", sender,
                        [slug |-> slug, manifestCid |-> manifestCid, priceWei |-> priceWei,
                         versionCode |-> versionCode],
                        registerCheck(slug, manifestCid))
    /\ IF registerCheck(slug, manifestCid) = Ok
       THEN /\ apps' = [apps EXCEPT ![slug] = newApp(sender, slug, manifestCid, priceWei)]
            /\ versions' = [versions EXCEPT
                   ![slug] = Append(@, newVersion(manifestCid, versionCode))]
            /\ totalApps' = totalApps + 1
            /\ emitted' = <<AppRegistered(slug, sender, manifestCid, priceWei),
                            VersionPublished(slug, manifestCid, versionCode)>>
       ELSE /\ UNCHANGED <<apps, versions, totalApps>>
            /\ emitted' = <<>>
    /\ UNCHANGED <<hasPurchased, purchases, platformFee, feeCollector, balance, entered, saved>>

(***************************** publishVersion ******************************)

(* mutant: the contract owner may publish for any app *)
publishCheck_ownerToo(sender, slug, manifestCid, versionCode) ==
    IF ~apps[slug].exists THEN NotFound
    ELSE IF apps[slug].publisher # sender /\ sender # owner THEN NotPublisher
    ELSE IF manifestCid = "" THEN EmptyContentRef
    ELSE IF /\ Len(versions[slug]) > 0
            /\ ~(versionCode > versions[slug][Len(versions[slug])].versionCode)
         THEN NonMonotonicVersion
    ELSE Ok

(* mutant: >= for > in the comparison with the previous version code *)
publishCheck_orEqual(sender, slug, manifestCid, versionCode) ==
    IF ~apps[slug].exists THEN NotFound
    ELSE IF apps[slug].publisher # sender THEN NotPublisher
    ELSE IF manifestCid = "" THEN EmptyContentRef
    ELSE IF /\ Len(versions[slug]) > 0
            /\ ~(versionCode >= versions[slug][Len(versions[slug])].versionCode)
         THEN NonMonotonicVersion
    ELSE Ok

publishCheck(sender, slug, manifestCid, versionCode) ==
    IF ~apps[slug].exists THEN NotFound
    ELSE IF apps[slug].publisher # sender THEN NotPublisher
    ELSE IF manifestCid = "" THEN EmptyContentRef
    ELSE IF /\ Len(versions[slug]) > 0
            /\ ~(versionCode > versions[slug][Len(versions[slug])].versionCode)
         THEN NonMonotonicVersion
    ELSE Ok

(* mutant: the version is appended, the manifest pointer is left behind *)
publishVersion_staleLatest(sender, slug, manifestCid, versionCode) ==
    /\ CanCall(sender)
    /\ UNCHANGED now
    /\ frame' = Called
    /\ last' = Returned("publishVersion", sender,
                        [slug |-> slug, manifestCid |-> manifestCid, versionCode |-> versionCode],
                        publishCheck(sender, slug, manifestCid, versionCode))
    /\ IF publishCheck(sender, slug, manifestCid, versionCode) = Ok
       THEN /\ versions' = [versions EXCEPT
                   ![slug] = Append(@, newVersion(manifestCid, versionCode))]
            /\ emitted' = <<VersionPublished(slug, manifestCid, versionCode)>>
       ELSE /\ UNCHANGED versions
            /\ emitted' = <<>>
    /\ UNCHANGED <<apps, hasPurchased, purchases, platformFee, feeCollector, totalApps,
                   balance, entered, saved>>

publishVersion(sender, slug, manifestCid, versionCode) ==
    /\ CanCall(sender)
    /\ UNCHANGED now
    /\ frame' = Called
    /\ last' = Returned("publishVersion", sender,
                        [slug |-> slug, manifestCid |-> manifestCid, versionCode |-> versionCode],
                        publishCheck(sender, slug, manifestCid, versionCode))
    /\ IF publishCheck(sender, slug, manifestCid, versionCode) = Ok
       THEN /\ apps' = [apps EXCEPT ![slug].latestManifestCid = manifestCid]
            /\ versions' = [versions EXCEPT
                   ![slug] = Append(@, newVersion(manifestCid, versionCode))]
            /\ emitted' = <<VersionPublished(slug, manifestCid, versionCode)>>
       ELSE /\ UNCHANGED <<apps, versions>>
            /\ emitted' = <<>>
    /\ UNCHANGED <<hasPurchased, purchases, platformFee, feeCollector, totalApps,
                   balance, entered, saved>>

(******************************* purchaseApp *******************************)

(* mutant: the purchase flag is not consulted *)
purchaseCheck_noFlag(sender, slug, value) ==
    IF entered THEN Reentrant
    ELSE IF ~apps[slug].exists THEN NotFound
    ELSE IF ~apps[slug].active THEN Inactive
    ELSE IF apps[slug].priceWei = 0 THEN Ok
    ELSE IF ~(value >= apps[slug].priceWei) THEN InsufficientPayment
    ELSE Ok

(* mutant: the active flag is not consulted *)
purchaseCheck_noActive(sender, slug, value) ==
    IF entered THEN Reentrant
    ELSE IF ~apps[slug].exists THEN NotFound
    ELSE IF apps[slug].priceWei = 0 THEN Ok
    ELSE IF hasPurchased[sender][slug] THEN AlreadyPurchased
    ELSE IF ~(value >= apps[slug].priceWei) THEN InsufficientPayment
    ELSE Ok

(* mutant: the purchase flag and the payment are checked before the active flag *)
purchaseCheck_flagFirst(sender, slug, value) ==
    IF entered THEN Reentrant
    ELSE IF ~apps[slug].exists THEN NotFound
    ELSE IF apps[slug].priceWei > 0 /\ hasPurchased[sender][slug] THEN AlreadyPurchased
    ELSE IF apps[slug].priceWei > 0 /\ ~(value >= apps[slug].priceWei) THEN InsufficientPayment
    ELSE IF ~apps[slug].active THEN Inactive
    ELSE Ok

(* mutant: the purchase flag is checked before the price is looked at *)
purchaseCheck_flagBeforePrice(sender, slug, value) ==
    IF entered THEN Reentrant
    ELSE IF ~apps[slug].exists THEN NotFound
    ELSE IF ~apps[slug].active THEN Inactive
    ELSE IF hasPurchased[sender][slug] THEN AlreadyPurchased
    ELSE IF apps[slug].priceWei = 0 THEN Ok
    ELSE IF ~(value >= apps[slug].priceWei) THEN InsufficientPayment
    ELSE Ok

(* mutant: the payment is not compared with the price *)
purchaseCheck_noPayment(sender, slug, value) ==
    IF entered THEN Reentrant
    ELSE IF ~apps[slug].exists THEN NotFound
    ELSE IF ~apps[slug].active THEN Inactive
    ELSE IF apps[slug].priceWei = 0 THEN Ok
    ELSE IF hasPurchased[sender][slug] THEN AlreadyPurchased
    ELSE Ok

(* mutant: purchaseApp without the nonReentrant modifier *)
purchaseCheck_noLock(sender, slug, value) ==
    IF ~apps[slug].exists THEN NotFound
    ELSE IF ~apps[slug].active THEN Inactive
    ELSE IF apps[slug].priceWei = 0 THEN Ok
    ELSE IF hasPurchased[sender][slug] THEN AlreadyPurchased
    ELSE IF ~(value >= apps[slug].priceWei) THEN InsufficientPayment
    ELSE Ok

purchaseCheck(sender, slug, value) ==
    IF entered THEN Reentrant
    ELSE IF ~apps[slug].exists THEN NotFound
    ELSE IF ~apps[slug].active THEN Inactive
    ELSE IF apps[slug].priceWei = 0 THEN Ok
    ELSE IF hasPurchased[sender][slug] THEN AlreadyPurchased
    ELSE IF ~(value >= apps[slug].priceWei) THEN InsufficientPayment
    ELSE Ok

(* mutant: the fee rounded up instead of truncated *)
platformFeeOf_roundedUp(price) == (price * platformFee + BasisPoints - 1) \div BasisPoints

platformFeeOf(price) == (price * platformFee) \div BasisPoints

publisherAmountOf(price, fee) == price - fee

(* msg.value arrives with the call *)
received(bal, sender, value) == [bal EXCEPT ![sender] = @ - value, ![Store] = @ + value]

(* to.call{value: amount}("") *)
send(bal, to, amount) == [bal EXCEPT ![Store] = @ - amount, ![to] = @ + amount]

(* mutant: the counters are written after the transfers *)
recordPurchase_deferred(slug, price) == apps

(* mutant: the download is counted, the revenue is not *)
recordPurchase_noRevenue(slug, price) == [apps EXCEPT ![slug].totalDownloads = @ + 1]

(* mutant: a download stamps the app with the time of the call *)
recordDownload_restamps(slug) ==
    [apps EXCEPT ![slug].totalDownloads = @ + 1, ![slug].createdAt = now]

(* mutant: the download counted twice *)
recordDownload_twice(slug) == [apps EXCEPT ![slug].totalDownloads = @ + 2]

recordDownload(slug) == [apps EXCEPT ![slug].totalDownloads = @ + 1]

recordPurchase(slug, price) ==
    [apps EXCEPT ![slug].totalDownloads = @ + 1, ![slug].totalRevenue = @ + price]

freeDownload(sender, slug, value) ==
    /\ apps[slug].totalDownloads < MaxDownloads
    /\ apps' = recordDownload(slug)
    /\ balance' = received(balance, sender, value)
    /\ frame' = Called
    /\ last' = Returned("purchaseApp", sender, [slug |-> slug, value |-> value], Ok)
    /\ emitted' = <<AppDownloaded(slug, sender)>>
    /\ UNCHANGED <<versions, hasPurchased, purchases, platformFee, feeCollector,
                   totalApps, entered, saved>>

(* mutant: the purchase is recorded, the flag of the buyer is not set *)
paidPurchase_noFlag(sender, slug, value, price, fee, publisherAmount) ==
    /\ purchases' = [purchases EXCEPT
           ![slug] = Append(@, [buyer |-> sender, timestamp |-> now, pricePaid |-> price])]
    /\ apps' = recordPurchase(slug, price)
    /\ balance' = send(received(balance, sender, value), apps[slug].publisher, publisherAmount)
    /\ entered' = TRUE
    /\ saved' = <<Snapshot>>
    /\ frame' = [pc |-> "publisher", sender |-> sender, slug |-> slug, value |-> value,
                 price |-> price, fee |-> fee, publisherAmount |-> publisherAmount,
                 to |-> apps[slug].publisher, nested |-> 0,
                 sent |-> <<[to |-> apps[slug].publisher, amount |-> publisherAmount]>>]
    /\ UNCHANGED <<versions, hasPurchased, platformFee, feeCollector, totalApps, last, emitted>>

paidPurchase(sender, slug, value, price, fee, publisherAmount) ==
    /\ hasPurchased' = [hasPurchased EXCEPT ![sender][slug] = TRUE]
    /\ purchases' = [purchases EXCEPT
           ![slug] = Append(@, [buyer |-> sender, timestamp |-> now, pricePaid |-> price])]
    /\ apps' = recordPurchase(slug, price)
    /\ balance' = send(received(balance, sender, value), apps[slug].publisher, publisherAmount)
    /\ entered' = TRUE
    /\ saved' = <<Snapshot>>
    /\ frame' = [pc |-> "publisher", sender |-> sender, slug |-> slug, value |-> value,
                 price |-> price, fee |-> fee, publisherAmount |-> publisherAmount,
                 to |-> apps[slug].publisher, nested |-> 0,
                 sent |-> <<[to |-> apps[slug].publisher, amount |-> publisherAmount]>>]
    /\ UNCHANGED <<versions, platformFee, feeCollector, totalApps, last, emitted>>

(* mutant: the payment of a call that fails a check is kept *)
purchaseApp_keepsPayment(sender, slug, value) ==
    /\ CanCall(sender)
    /\ UNCHANGED now
    /\ value <= balance[sender]
    /\ IF purchaseCheck(sender, slug, value) # Ok
       THEN /\ frame' = Called
            /\ last' = Returned("purchaseApp", sender, [slug |-> slug, value |-> value],
                                purchaseCheck(sender, slug, value))
            /\ emitted' = <<>>
            /\ balance' = received(balance, sender, value)
            /\ UNCHANGED <<storage, entered, saved>>
       ELSE IF apps[slug].priceWei = 0
       THEN freeDownload(sender, slug, value)
       ELSE paidPurchase(sender, slug, value, apps[slug].priceWei,
                         platformFeeOf(apps[slug].priceWei),
                         publisherAmountOf(apps[slug].priceWei,
                                           platformFeeOf(apps[slug].priceWei)))

purchaseApp(sender, slug, value) ==
    /\ CanCall(sender)
    /\ UNCHANGED now
    /\ value <= balance[sender]
    /\ IF purchaseCheck(sender, slug, value) # Ok
       THEN /\ frame' = Called
            /\ last' = Returned("purchaseApp", sender, [slug |-> slug, value |-> value],
                                purchaseCheck(sender, slug, value))
            /\ emitted' = <<>>
            /\ UNCHANGED <<storage, balance, entered, saved>>
       ELSE IF apps[slug].priceWei = 0
       THEN freeDownload(sender, slug, value)
       ELSE paidPurchase(sender, slug, value, apps[slug].priceWei,
                         platformFeeOf(apps[slug].priceWei),
                         publisherAmountOf(apps[slug].priceWei,
                                           platformFeeOf(apps[slug].priceWei)))

(* mutant: the excess payment is kept *)
nextTransfer_noRefund(f) ==
    IF f.pc = "publisher" /\ f.fee > 0 THEN "fee"
    ELSE "done"

(* what purchaseApp does once the transfer in flight has returned success *)
nextTransfer(f) ==
    IF f.pc = "publisher" /\ f.fee > 0 THEN "fee"
    ELSE IF f.value > f.price /\ f.pc # "refund" THEN "refund"
    ELSE "done"

transferTo(f, stage) == IF stage = "fee" THEN feeCollector ELSE f.sender

(* mutant: the fee is computed again when it is sent *)
transferAmount_currentFee(f, stage) ==
    IF stage = "fee" THEN platformFeeOf(f.price) ELSE f.value - f.price

transferAmount(f, stage) == IF stage = "fee" THEN f.fee ELSE f.value - f.price

(* the receiver of the transfer in flight accepts it and returns *)
callReturns ==
    /\ frame.pc # "idle"
    /\ last = None
    /\ UNCHANGED now
    /\ IF nextTransfer(frame) = "done"
       THEN /\ frame' = Idle
            /\ saved' = <<>>
            /\ entered' = FALSE
            /\ last' = Returned("purchaseApp", frame.sender,
                                [slug |-> frame.slug, value |-> frame.value], Ok)
            /\ emitted' = <<AppPurchased(frame.slug, frame.sender, frame.price, frame.fee)>>
            /\ UNCHANGED <<storage, balance>>
       ELSE /\ balance' = send(balance, transferTo(frame, nextTransfer(frame)),
                               transferAmount(frame, nextTransfer(frame)))
            /\ frame' = [frame EXCEPT
                   !.pc = nextTransfer(frame),
                   !.to = transferTo(frame, nextTransfer(frame)),
                   !.sent = Append(@, [to |-> transferTo(frame, nextTransfer(frame)),
                                       amount |-> transferAmount(frame, nextTransfer(frame))])]
            /\ UNCHANGED <<storage, entered, saved, last, emitted>>

failure(pc) ==
    IF pc = "publisher" THEN PublisherTransferFailed
    ELSE IF pc = "fee" THEN FeeTransferFailed
    ELSE RefundFailed

(* mutant: the transfers already made are not undone *)
reverted_storageOnly == [saved[1] EXCEPT !.balance = balance]

(* the state a failed require leaves: that of the start of the transaction *)
reverted == saved[1]

(* the receiver of the transfer in flight rejects it: the require after the *)
(* call fails and the transaction is reverted                               *)
callFails ==
    /\ frame.pc # "idle"
    /\ last = None
    /\ UNCHANGED now
    /\ apps' = reverted.apps
    /\ versions' = reverted.versions
    /\ hasPurchased' = reverted.hasPurchased
    /\ purchases' = reverted.purchases
    /\ platformFee' = reverted.platformFee
    /\ feeCollector' = reverted.feeCollector
    /\ totalApps' = reverted.totalApps
    /\ balance' = reverted.balance
    /\ entered' = FALSE
    /\ frame' = Idle
    /\ saved' = <<>>
    /\ last' = Returned("purchaseApp", frame.sender, [slug |-> frame.slug, value |-> frame.value],
                        failure(frame.pc))
    /\ emitted' = <<>>

(************************ updatePrice, deprecateVersion ********************)

(* mutant: the caller is not compared with the publisher *)
publisherCheck_anyone(sender, slug) ==
    IF ~apps[slug].exists THEN NotFound
    ELSE Ok

(* mutant: the publisher's operations are refused on a deactivated app *)
publisherCheck_activeOnly(sender, slug) ==
    IF ~apps[slug].exists THEN NotFound
    ELSE IF apps[slug].publisher # sender THEN NotPublisher
    ELSE IF ~apps[slug].active THEN Inactive
    ELSE Ok

publisherCheck(sender, slug) ==
    IF ~apps[slug].exists THEN NotFound
    ELSE IF apps[slug].publisher # sender THEN NotPublisher
    ELSE Ok

updatePrice(sender, slug, newPriceWei) ==
    /\ CanCall(sender)
    /\ UNCHANGED now
    /\ frame' = Called
    /\ last' = Returned("updatePrice", sender, [slug |-> slug, newPriceWei |-> newPriceWei],
                        publisherCheck(sender, slug))
    /\ apps' = IF publisherCheck(sender, slug) = Ok
               THEN [apps EXCEPT ![slug].priceWei = newPriceWei]
               ELSE apps
    /\ emitted' = IF publisherCheck(sender, slug) = Ok
                  THEN <<AppUpdated(slug, newPriceWei)>>
                  ELSE <<>>
    /\ UNCHANGED <<versions, hasPurchased, purchases, platformFee, feeCollector, totalApps,
                   balance, entered, saved>>

(* mutant: <= for < in the bound of the index *)
deprecateCheck_offByOne(sender, slug, versionIndex) ==
    IF publisherCheck(sender, slug) # Ok THEN publisherCheck(sender, slug)
    ELSE IF ~(versionIndex <= Len(versions[slug])) THEN InvalidIndex
    ELSE Ok

deprecateCheck(sender, slug, versionIndex) ==
    IF publisherCheck(sender, slug) # Ok THEN publisherCheck(sender, slug)
    ELSE IF ~(versionIndex < Len(versions[slug])) THEN InvalidIndex
    ELSE Ok

(* mutant: deprecating a version stamps it with the time of the call *)
deprecateVersion_restamps(sender, slug, versionIndex) ==
    /\ CanCall(sender)
    /\ UNCHANGED now
    /\ frame' = Called
    /\ last' = Returned("deprecateVersion", sender, [slug |-> slug, versionIndex |-> versionIndex],
                        deprecateCheck(sender, slug, versionIndex))
    /\ versions' = IF deprecateCheck(sender, slug, versionIndex) = Ok
                   THEN [versions EXCEPT ![slug][versionIndex + 1].deprecated = TRUE,
                                         ![slug][versionIndex + 1].timestamp = now]
                   ELSE versions
    /\ emitted' = <<>>
    /\ UNCHANGED <<apps, hasPurchased, purchases, platformFee, feeCollector, totalApps,
                   balance, entered, saved>>

(* versionIndex counts from 0 *)
deprecateVersion(sender, slug, versionIndex) ==
    /\ CanCall(sender)
    /\ UNCHANGED now
    /\ frame' = Called
    /\ last' = Returned("deprecateVersion", sender, [slug |-> slug, versionIndex |-> versionIndex],
                        deprecateCheck(sender, slug, versionIndex))
    /\ versions' = IF deprecateCheck(sender, slug, versionIndex) = Ok
                   THEN [versions EXCEPT ![slug][versionIndex + 1].deprecated = TRUE]
                   ELSE versions
    /\ emitted' = <<>>
    /\ UNCHANGED <<apps, hasPurchased, purchases, platformFee, feeCollector, totalApps,
                   balance, entered, saved>>

(****************************** view functions *****************************)

getApp(slug) == IF ~apps[slug].exists THEN NotFound ELSE apps[slug]

(* index counts from 0 *)
getVersion(slug, index) ==
    IF ~(index < Len(versions[slug])) THEN InvalidIndex ELSE versions[slug][index + 1]

hasUserPurchased(user, slug) == hasPurchased[user][slug]

getPurchaseCount(slug) == Len(purchases[slug])

(****************************** admin functions ****************************)

(* mutant: the admin functions are open to every caller *)
onlyOwner_anyone(sender) == TRUE

onlyOwner(sender) == sender = owner

(* mutant: the fee is not capped *)
setPlatformFeeCheck_noCap(sender, newFee) ==
    IF ~onlyOwner(sender) THEN NotOwner
    ELSE Ok

setPlatformFeeCheck(sender, newFee) ==
    IF ~onlyOwner(sender) THEN NotOwner
    ELSE IF ~(newFee <= MaxPlatformFee) THEN FeeTooHigh
    ELSE Ok

setPlatformFee(sender, newFee) ==
    /\ CanCall(sender)
    /\ UNCHANGED now
    /\ frame' = Called
    /\ last' = Returned("setPlatformFee", sender, [newFee |-> newFee],
                        setPlatformFeeCheck(sender, newFee))
    /\ platformFee' = IF setPlatformFeeCheck(sender, newFee) = Ok THEN newFee ELSE platformFee
    /\ emitted' = IF setPlatformFeeCheck(sender, newFee) = Ok
                  THEN <<PlatformFeeUpdated(newFee)>>
                  ELSE <<>>
    /\ UNCHANGED <<apps, versions, hasPurchased, purchases, feeCollector, totalApps,
                   balance, entered, saved>>

setFeeCollectorCheck(sender, newCollector) ==
    IF ~onlyOwner(sender) THEN NotOwner
    ELSE IF newCollector = ZeroAddress THEN InvalidAddress
    ELSE Ok

setFeeCollector(sender, newCollector) ==
    /\ CanCall(sender)
    /\ UNCHANGED now
    /\ frame' = Called
    /\ last' = Returned("setFeeCollector", sender, [newCollector |-> newCollector],
                        setFeeCollectorCheck(sender, newCollector))
    /\ feeCollector' = IF setFeeCollectorCheck(sender, newCollector) = Ok
                       THEN newCollector ELSE feeCollector
    /\ emitted' = IF setFeeCollectorCheck(sender, newCollector) = Ok
                  THEN <<FeeCollectorUpdated(newCollector)>>
                  ELSE <<>>
    /\ UNCHANGED <<apps, versions, hasPurchased, purchases, platformFee, totalApps,
                   balance, entered, saved>>

setAppStatusCheck(sender, slug) ==
    IF ~onlyOwner(sender) THEN NotOwner
    ELSE IF ~apps[slug].exists THEN NotFound
    ELSE Ok

(* mutant: the status is written to every registered app *)
setAppStatus_everyApp(sender, slug, active) ==
    /\ CanCall(sender)
    /\ UNCHANGED now
    /\ frame' = Called
    /\ last' = Returned("setAppStatus", sender, [slug |-> slug, active |-> active],
                        setAppStatusCheck(sender, slug))
    /\ apps' = IF setAppStatusCheck(sender, slug) = Ok
               THEN [s \in DOMAIN apps |->
                        IF apps[s].exists THEN [apps[s] EXCEPT !.active = active] ELSE apps[s]]
               ELSE apps
    /\ emitted' = IF setAppStatusCheck(sender, slug) = Ok
                  THEN <<AppStatusChanged(slug, active)>>
                  ELSE <<>>
    /\ UNCHANGED <<versions, hasPurchased, purchases, platformFee, feeCollector, totalApps,
                   balance, entered, saved>>

setAppStatus(sender, slug, active) ==
    /\ CanCall(sender)
    /\ UNCHANGED now
    /\ frame' = Called
    /\ last' = Returned("setAppStatus", sender, [slug |-> slug, active |-> active],
                        setAppStatusCheck(sender, slug))
    /\ apps' = IF setAppStatusCheck(sender, slug) = Ok
               THEN [apps EXCEPT ![slug].active = active]
               ELSE apps
    /\ emitted' = IF setAppStatusCheck(sender, slug) = Ok
                  THEN <<AppStatusChanged(slug, active)>>
                  ELSE <<>>
    /\ UNCHANGED <<versions, hasPurchased, purchases, platformFee, feeCollector, totalApps,
                   balance, entered, saved>>

(* the caller of the call that has just returned takes its result and goes on *)
resume ==
    /\ last # None
    /\ last' = None
    /\ UNCHANGED now
    /\ emitted' = <<>>
    /\ UNCHANGED <<storage, balance, entered, frame, saved>>

(* a block is mined: the transactions that follow see a later timestamp *)
tick ==
    /\ frame.pc = "idle"
    /\ last = None
    /\ now < MaxTime
    /\ now' = now + 1
    /\ UNCHANGED <<storage, balance, entered, frame, saved, last, emitted>>

(****************************** specification ******************************)

Next ==
    \/ \E sender \in Addresses, slug \in Slugs, manifestCid \in Cids,
          priceWei \in Prices, versionCode \in VersionCodes :
           registerApp(sender, slug, manifestCid, priceWei, versionCode)
    \/ \E sender \in Addresses, slug \in Slugs, manifestCid \in Cids,
          versionCode \in VersionCodes :
           publishVersion(sender, slug, manifestCid, versionCode)
    \/ \E sender \in Addresses, slug \in Slugs, value \in Payments :
           purchaseApp(sender, slug, value)
    \/ callReturns
    \/ callFails
    \/ \E sender \in Addresses, slug \in Slugs, newPriceWei \in Prices :
           updatePrice(sender, slug, newPriceWei)
    \/ \E sender \in Addresses, slug \in Slugs, versionIndex \in 0..MaxVersionCode :
           deprecateVersion(sender, slug, versionIndex)
    \/ \E sender \in Addresses, newFee \in Fees : setPlatformFee(sender, newFee)
    \/ \E sender \in Addresses, newCollector \in Addresses \cup {ZeroAddress} :
           setFeeCollector(sender, newCollector)
    \/ \E sender \in Addresses, slug \in Slugs, active \in BOOLEAN :
           setAppStatus(sender, slug, active)
    \/ resume

Spec == Init /\ [][Next]_vars

(* The registry and the version ledger on their own: apps are free, so no  *)
(* purchaseApp call reaches a transfer.                                     *)
NextLedger ==
    \/ \E sender \in Addresses, slug \in Slugs, manifestCid \in LedgerCids,
          versionCode \in LedgerVersionCodes :
           registerApp(sender, slug, manifestCid, 0, versionCode)
    \/ \E sender \in Addresses, slug \in Slugs, manifestCid \in LedgerCids,
          versionCode \in LedgerVersionCodes :
           publishVersion(sender, slug, manifestCid, versionCode)
    \/ \E sender \in Addresses, slug \in Slugs : purchaseApp(sender, slug, 0)
    \/ \E sender \in Addresses, slug \in Slugs,
          versionIndex \in 0..MaxLedgerVersionCode :
           deprecateVersion(sender, slug, versionIndex)
    \/ \E sender \in Addresses, slug \in Slugs, active \in BOOLEAN :
           setAppStatus(sender, slug, active)
    \/ resume

SpecLedger == Init /\ [][NextLedger]_vars

(* Two apps side by side, each with its versions and its purchases, at one *)
(* price and one fee.                                                      *)
RegistrySlugs == {"a", "b"}

InitRegistry ==
    /\ apps = [s \in RegistrySlugs |-> NoApp]
    /\ versions = [s \in RegistrySlugs |-> <<>>]
    /\ hasPurchased = [a \in Addresses |-> [s \in RegistrySlugs |-> FALSE]]
    /\ purchases = [s \in RegistrySlugs |-> <<>>]
    /\ platformFee = DefaultPlatformFee
    /\ feeCollector = owner
    /\ totalApps = 0
    /\ balance = [a \in Addresses \cup {Store} |-> IF a = "bob" THEN InitialBalance ELSE 0]
    /\ entered = FALSE
    /\ frame = Idle
    /\ saved = <<>>
    /\ last = None
    /\ emitted = <<>>
    /\ now = 1

NextRegistry ==
    \/ \E sender \in Addresses, slug \in RegistrySlugs :
           registerApp(sender, slug, "c1", 50, 1)
    \/ \E sender \in Addresses, slug \in RegistrySlugs :
           publishVersion(sender, slug, "c2", 2)
    \/ \E sender \in Addresses, slug \in RegistrySlugs : purchaseApp(sender, slug, 50)
    \/ callReturns
    \/ callFails
    \/ \E sender \in Addresses, slug \in RegistrySlugs, versionIndex \in 0..1 :
           deprecateVersion(sender, slug, versionIndex)
    \/ \E sender \in Addresses, slug \in RegistrySlugs, active \in BOOLEAN :
           setAppStatus(sender, slug, active)
    \/ resume

SpecRegistry == InitRegistry /\ [][NextRegistry]_vars

(* The life of one app over several blocks: registered, versioned, priced, *)
(* moderated, downloaded and bought, each at the timestamp of its block.   *)
NextLifecycle ==
    \/ \E sender \in Addresses, slug \in Slugs : registerApp(sender, slug, "c1", 0, 1)
    \/ \E sender \in Addresses, slug \in Slugs : publishVersion(sender, slug, "c2", 2)
    \/ \E sender \in Addresses, slug \in Slugs, value \in {0, 50} :
           purchaseApp(sender, slug, value)
    \/ callReturns
    \/ callFails
    \/ \E sender \in Addresses, slug \in Slugs, newPriceWei \in Prices :
           updatePrice(sender, slug, newPriceWei)
    \/ \E sender \in Addresses, slug \in Slugs, versionIndex \in 0..1 :
           deprecateVersion(sender, slug, versionIndex)
    \/ \E sender \in Addresses, slug \in Slugs, active \in BOOLEAN :
           setAppStatus(sender, slug, active)
    \/ tick
    \/ resume

SpecLifecycle == Init /\ [][NextLifecycle]_vars

(******************************* the steps *********************************)

(* a call of op returns in this step without having made an outbound transfer *)
Immediate(op) == last = None /\ last'.op = op /\ frame'.pc = frame.pc

(* a paid purchaseApp has made its checks and its effects and calls the publisher *)
Starts == frame.pc = "idle" /\ frame'.pc = "publisher"

(* the last transfer of the purchaseApp in flight has returned: the call succeeds *)
Completes == frame.pc # "idle" /\ frame'.pc = "idle" /\ last'.result = Ok

(* a transfer of the purchaseApp in flight has failed: the call reverts *)
Reverts == frame.pc # "idle" /\ frame'.pc = "idle" /\ last'.result # Ok

(******************************* registry **********************************)

(* C1: registerApp on a registered slug fails with DuplicateSlug whoever   *)
(* calls and whatever the other arguments, and leaves the state as it was; *)
(* registerApp succeeds only on an unregistered non-empty slug, which is   *)
(* registered from then on (only the revert of the transaction that        *)
(* registered it takes it back), so the count of successful registrations  *)
(* is the number of registered slugs.                                      *)
C1_DuplicateSlug ==
    [][ /\ (Immediate("registerApp") /\ apps[last'.args.slug].exists)
            => (last'.result = DuplicateSlug /\ UNCHANGED <<storage, balance>>)
        /\ (Immediate("registerApp") /\ last'.result = Ok)
            => /\ ~apps[last'.args.slug].exists
               /\ last'.args.slug # ""
               /\ apps'[last'.args.slug].exists
               /\ totalApps' = totalApps + 1
        /\ \A s \in Slugs :
              (apps[s].exists /\ ~apps'[s].exists) => (Reverts /\ ~saved[1].apps[s].exists)
        /\ totalApps' = Cardinality({s \in Slugs : apps'[s].exists})
      ]_vars

C1_Witness ==
    /\ last.op = "registerApp"
    /\ last.result = DuplicateSlug
    /\ last.sender # apps[last.args.slug].publisher
    /\ last.args.manifestCid = ""
    /\ last.args.priceWei # apps[last.args.slug].priceWei

(***************************** version ledger ******************************)

StrictlyIncreasing(vs) ==
    \A i, j \in DOMAIN vs : i < j => vs[i].versionCode < vs[j].versionCode

Codes(vs) == [i \in DOMAIN vs |-> vs[i].versionCode]

(* C2: the version codes of every app are strictly increasing in list      *)
(* order; the list holds the code given to registerApp followed by the     *)
(* codes publishVersion accepted; publishVersion with a code not above the *)
(* last one fails and appends nothing, with NonMonotonicVersion when the   *)
(* caller is the publisher and the content reference is not empty.         *)
C2_StrictlyIncreasing ==
    [][ /\ \A s \in Slugs : StrictlyIncreasing(versions'[s])
        /\ (/\ Immediate("publishVersion")
            /\ Len(versions[last'.args.slug]) > 0
            /\ last'.args.versionCode <=
                   versions[last'.args.slug][Len(versions[last'.args.slug])].versionCode)
            => /\ last'.result # Ok
               /\ versions' = versions
               /\ (/\ apps[last'.args.slug].publisher = last'.sender
                   /\ last'.args.manifestCid # "") => last'.result = NonMonotonicVersion
        /\ (Immediate("registerApp") /\ last'.result = Ok)
            => Codes(versions'[last'.args.slug]) = <<last'.args.versionCode>>
        /\ (Immediate("publishVersion") /\ last'.result = Ok)
            => Codes(versions'[last'.args.slug])
                   = Append(Codes(versions[last'.args.slug]), last'.args.versionCode)
      ]_vars

C2_Witness ==
    /\ last.op = "publishVersion"
    /\ last.result = NonMonotonicVersion
    /\ Len(versions[last.args.slug]) = 2
    /\ last.args.versionCode = versions[last.args.slug][2].versionCode

(***************************** purchase ledger *****************************)

(* C3: the purchase history of an app holds at most one record per buyer;  *)
(* a paid purchaseApp goes through only for a buyer whose flag is not set; *)
(* once the flag is set (only the revert of that purchase resets it) every *)
(* purchaseApp of that buyer while the price is above 0 fails and changes  *)
(* nothing, with AlreadyPurchased when the call reaches that check (a      *)
(* top-level call on an active app).                                       *)
C3_AtMostOnePurchase ==
    [][ /\ \A s \in Slugs, b \in Addresses :
              Cardinality({i \in DOMAIN purchases'[s] : purchases'[s][i].buyer = b}) <= 1
        /\ Starts => ~hasPurchased[frame'.sender][frame'.slug]
        /\ (/\ Immediate("purchaseApp")
            /\ hasPurchased[last'.sender][last'.args.slug]
            /\ apps[last'.args.slug].priceWei > 0)
            => /\ last'.result # Ok
               /\ UNCHANGED <<storage, balance>>
               /\ (frame.pc = "idle" /\ apps[last'.args.slug].active)
                     => last'.result = AlreadyPurchased
        /\ \A s \in Slugs, b \in Addresses :
              (hasPurchased[b][s] /\ ~hasPurchased'[b][s])
                  => (Reverts /\ b = frame.sender /\ s = frame.slug)
      ]_vars

C3_Witness ==
    /\ last.op = "purchaseApp"
    /\ last.result = AlreadyPurchased
    /\ Len(purchases[last.args.slug]) = 2
    /\ last.args.value >= apps[last.args.slug].priceWei

(* C25: an updatePrice to 0 on an app that has Purchase records leaves the *)
(* records and the purchase flags as they were; from then on a top-level   *)
(* purchaseApp on the app (while it is active), also by a buyer whose flag *)
(* is set and who has a record, takes the free path: it succeeds, adds 1   *)
(* to totalDownloads, adds no Purchase record, leaves the flags and the    *)
(* revenue alone and is not rejected with AlreadyPurchased.                *)
C25_FreeAfterPriceDrop ==
    [][ /\ (/\ Immediate("updatePrice")
            /\ last'.result = Ok
            /\ last'.args.newPriceWei = 0
            /\ purchases[last'.args.slug] # <<>>)
            => /\ apps'[last'.args.slug].priceWei = 0
               /\ purchases' = purchases
               /\ hasPurchased' = hasPurchased
        /\ (/\ Immediate("purchaseApp")
            /\ frame.pc = "idle"
            /\ apps[last'.args.slug].exists
            /\ apps[last'.args.slug].active
            /\ apps[last'.args.slug].priceWei = 0
            /\ purchases[last'.args.slug] # <<>>)
            => /\ last'.result = Ok
               /\ last'.result # AlreadyPurchased
               /\ apps'[last'.args.slug]
                     = [apps[last'.args.slug] EXCEPT !.totalDownloads = @ + 1]
               /\ purchases' = purchases
               /\ hasPurchased' = hasPurchased
               /\ emitted' = <<[event |-> "AppDownloaded",
                                args |-> <<last'.args.slug, last'.sender>>]>>
      ]_vars

C25_Witness ==
    /\ last.op = "purchaseApp"
    /\ last.result = Ok
    /\ last.sender = "bob"
    /\ hasPurchased["bob"][last.args.slug]
    /\ apps[last.args.slug].priceWei = 0
    /\ Len(purchases[last.args.slug]) = 1
    /\ purchases[last.args.slug][1].buyer = "bob"
    /\ apps[last.args.slug].totalDownloads = 2
    /\ apps[last.args.slug].totalRevenue = 50

(* C29: the purchase flags and the purchase history agree in every state:  *)
(* hasUserPurchased(buyer, slug) holds exactly when the history of the app *)
(* has a Purchase record of that buyer, and getPurchaseCount(slug) is the  *)
(* number of buyers whose flag is set; no operation resets a flag or       *)
(* lowers the count (the revert of a purchaseApp takes back the flag and   *)
(* the record that purchase had set).                                      *)
C29_FlagsAgreeWithHistory ==
    [][ /\ \A s \in DOMAIN purchases, b \in Addresses :
              hasUserPurchased(b, s)' <=>
                  \E i \in DOMAIN purchases'[s] : purchases'[s][i].buyer = b
        /\ \A s \in DOMAIN purchases :
              getPurchaseCount(s)'
                 = Cardinality({b \in Addresses : hasUserPurchased(b, s)'})
        /\ \A s \in DOMAIN purchases, b \in Addresses :
              (hasUserPurchased(b, s) /\ ~hasUserPurchased(b, s)')
                  => (Reverts /\ b = frame.sender /\ s = frame.slug)
        /\ \A s \in DOMAIN purchases :
              getPurchaseCount(s)' < getPurchaseCount(s)
                  => /\ Reverts
                     /\ s = frame.slug
                     /\ getPurchaseCount(s)' = getPurchaseCount(s) - 1
      ]_vars

C29_Witness ==
    /\ last.op = "purchaseApp"
    /\ last.result = Ok
    /\ getPurchaseCount(last.args.slug) = 2
    /\ hasUserPurchased("bob", last.args.slug)
    /\ hasUserPurchased("alice", last.args.slug)
    /\ ~hasUserPurchased(owner, last.args.slug)
    /\ apps[last.args.slug].priceWei = 50

(**************************** payment distributor **************************)

(* C4: a paid purchase takes fee = floor(price * platformFee / 10000) with *)
(* platformFee in 0..1000 and publisherAmount = price - fee, which sum to  *)
(* the price; the first transfer gives publisherAmount to the publisher    *)
(* and, when fee > 0, the second gives fee to the fee collector.           *)
C4_FeeSplit ==
    [][ /\ Starts =>
              /\ frame'.price = apps[frame'.slug].priceWei
              /\ frame'.price > 0
              /\ platformFee \in 0..1000
              /\ frame'.fee = (frame'.price * platformFee) \div 10000
              /\ frame'.publisherAmount = frame'.price - frame'.fee
              /\ frame'.fee + frame'.publisherAmount = frame'.price
              /\ frame'.sent = <<[to |-> apps[frame'.slug].publisher,
                                  amount |-> frame'.publisherAmount]>>
              /\ balance'[apps[frame'.slug].publisher]
                    = balance[apps[frame'.slug].publisher] + frame'.publisherAmount
                      - (IF apps[frame'.slug].publisher = frame'.sender
                         THEN frame'.value ELSE 0)
        /\ (frame.pc # "idle" /\ frame'.pc # "idle")
              => /\ frame'.price = frame.price
                 /\ frame'.fee = frame.fee
                 /\ frame'.publisherAmount = frame.publisherAmount
        /\ (frame.pc = "publisher" /\ frame'.pc = "fee")
              => /\ frame.fee > 0
                 /\ frame'.sent = Append(frame.sent, [to |-> feeCollector, amount |-> frame.fee])
                 /\ balance'[feeCollector] = balance[feeCollector] + frame.fee
        /\ Completes
              => /\ frame.sent[1] = [to |-> apps[frame.slug].publisher,
                                     amount |-> frame.publisherAmount]
                 /\ frame.fee > 0 => (Len(frame.sent) >= 2 /\ frame.sent[2].amount = frame.fee)
      ]_vars

C4_Witness ==
    /\ last.op = "purchaseApp"
    /\ last.result = Ok
    /\ last.sender = "bob"
    /\ last.args.value = 50
    /\ apps[last.args.slug].publisher = "alice"
    /\ platformFee = 250
    /\ balance = [owner |-> 1, alice |-> 49, bob |-> 10, store |-> 0]

(* what the purchaseApp in flight has paid to b as the publisher or as the *)
(* fee collector                                                           *)
PaidTo(b) ==
    (IF apps[frame.slug].publisher = b THEN frame.publisherAmount ELSE 0)
    + (IF frame.fee > 0 /\ frame.sent[2].to = b THEN frame.fee ELSE 0)

(* C5 as stated: a successful paid purchaseApp lowers the caller's balance *)
(* by exactly the price, whoever the caller is.                            *)
C5_CallerPaysPrice ==
    [][ Completes => balance'[frame.sender] = saved[1].balance[frame.sender] - frame.price
      ]_vars

(* C5, amended: a successful paid purchaseApp refunds value - price to the *)
(* caller within the call, so the caller's balance is lower than before by *)
(* the price less what the same call paid to the caller as the publisher   *)
(* of the app or as the fee collector: by exactly the price for a caller   *)
(* who is neither, and never by the value attached when that is more.      *)
C5_CallerPaysPriceLessReceipts ==
    [][ Completes =>
          /\ frame.value >= frame.price
          /\ frame.value > frame.price
                => frame.sent[Len(frame.sent)]
                       = [to |-> frame.sender, amount |-> frame.value - frame.price]
          /\ balance'[frame.sender]
                = saved[1].balance[frame.sender] - frame.price + PaidTo(frame.sender)
          /\ (frame.sender # apps[frame.slug].publisher /\ PaidTo(frame.sender) = 0)
                => saved[1].balance[frame.sender] - balance'[frame.sender] = frame.price
      ]_vars

C5_Witness ==
    /\ last.op = "purchaseApp"
    /\ last.result = Ok
    /\ last.sender = "bob"
    /\ last.args.value = 51
    /\ apps[last.args.slug].publisher = "alice"
    /\ feeCollector = "owner"
    /\ balance["bob"] = 10
    /\ balance[Store] = 0

(* C6: a successful purchaseApp on a free app moves no value, whatever the *)
(* value attached to the call.                                             *)
C6_FreeMovesNoValue ==
    [][ (Immediate("purchaseApp") /\ last'.result = Ok) => balance' = balance ]_vars

(* the transfers a purchase of f makes, in order, when each is accepted *)
TransfersDue(f) ==
    <<"publisher">> \o (IF f.fee > 0 THEN <<"fee">> ELSE <<>>)
                    \o (IF f.value > f.price THEN <<"refund">> ELSE <<>>)

(* C27: a top-level purchaseApp on a registered app with a price above 0   *)
(* reaches its transfers exactly when the app is active, the caller has no *)
(* purchase flag and the value covers the price, and fails at once         *)
(* otherwise; having reached them it succeeds exactly when each transfer   *)
(* due (to the publisher; to the fee collector when fee > 0; to the caller *)
(* when value > price) is accepted, and fails with TransferFailed at the   *)
(* first one rejected, the publisher's first.                              *)
C27_PaidPurchaseSucceedsIff ==
    [][ /\ Starts
            => /\ apps[frame'.slug].exists
               /\ apps[frame'.slug].active
               /\ apps[frame'.slug].priceWei > 0
               /\ ~hasPurchased[frame'.sender][frame'.slug]
               /\ frame'.value >= apps[frame'.slug].priceWei
               /\ frame'.to = apps[frame'.slug].publisher
        /\ (/\ Immediate("purchaseApp")
            /\ frame.pc = "idle"
            /\ apps[last'.args.slug].exists
            /\ apps[last'.args.slug].priceWei > 0)
            => /\ last'.result # Ok
               /\ \/ ~apps[last'.args.slug].active
                  \/ hasPurchased[last'.sender][last'.args.slug]
                  \/ last'.args.value < apps[last'.args.slug].priceWei
        /\ Completes
            => /\ Len(frame.sent) = Len(TransfersDue(frame))
               /\ frame.pc = TransfersDue(frame)[Len(TransfersDue(frame))]
               /\ last'.op = "purchaseApp"
        /\ (frame.pc # "idle" /\ frame'.pc # frame.pc /\ ~Completes /\ ~Reverts)
            => /\ Len(frame'.sent) = Len(frame.sent) + 1
               /\ frame'.pc = TransfersDue(frame)[Len(frame'.sent)]
        /\ Reverts
            => /\ last'.result \in TransferFailed
               /\ last'.result = failure(TransfersDue(frame)[Len(frame.sent)])
      ]_vars

C27_Witness ==
    /\ last.op = "purchaseApp"
    /\ last.result = FeeTransferFailed
    /\ feeCollector # owner
    /\ feeCollector # apps[last.args.slug].publisher
    /\ last.args.value = 51
    /\ balance["bob"] = 60

(* C30: the receiver of a transfer can call the operations the lock does   *)
(* not cover from its callback, and they take effect, but the purchase in  *)
(* flight goes on with what it computed from the price and the platform    *)
(* fee it read before its first transfer: price, fee, publisherAmount and  *)
(* the refund value - price do not change while it is in flight, each      *)
(* transfer sends the amount so computed, and when it completes the        *)
(* history has exactly one record more than before the call, with that     *)
(* price as pricePaid.                                                     *)
C30_InFlightPurchaseUnchanged ==
    [][ /\ Starts
            => /\ frame'.price = apps[frame'.slug].priceWei
               /\ frame'.fee = (apps[frame'.slug].priceWei * platformFee) \div 10000
               /\ frame'.publisherAmount = frame'.price - frame'.fee
        /\ (frame.pc # "idle" /\ frame'.pc # "idle")
            => /\ frame'.sender = frame.sender
               /\ frame'.slug = frame.slug
               /\ frame'.value = frame.value
               /\ frame'.price = frame.price
               /\ frame'.fee = frame.fee
               /\ frame'.publisherAmount = frame.publisherAmount
               /\ purchases'[frame.slug] = purchases[frame.slug]
        /\ frame'.pc # "idle"
            => /\ frame'.price = saved'[1].apps[frame'.slug].priceWei
               /\ frame'.fee = (frame'.price * saved'[1].platformFee) \div 10000
               /\ frame'.sent[Len(frame'.sent)].amount
                     = IF frame'.pc = "publisher" THEN frame'.publisherAmount
                       ELSE IF frame'.pc = "fee" THEN frame'.fee
                       ELSE frame'.value - frame'.price
        /\ Completes
            => /\ purchases'[frame.slug]
                     = Append(saved[1].purchases[frame.slug],
                              [buyer |-> frame.sender, timestamp |-> now,
                               pricePaid |-> saved[1].apps[frame.slug].priceWei])
               /\ emitted' = <<[event |-> "AppPurchased",
                                args |-> <<frame.slug, frame.sender, frame.price, frame.fee>>]>>
      ]_vars

C30_Witness ==
    /\ frame.pc = "refund"
    /\ last = None
    /\ frame.nested = 1
    /\ platformFee = 1000
    /\ saved[1].platformFee = 250
    /\ frame.fee = 1
    /\ frame.sent = <<[to |-> apps[frame.slug].publisher, amount |-> 49],
                      [to |-> owner, amount |-> 1],
                      [to |-> frame.sender, amount |-> 1]>>

(* C26: whenever no purchaseApp is in flight the contract holds no value:  *)
(* what was attached to a call has gone to the publisher and the fee       *)
(* collector or back to the caller.                                        *)
C26_StoreHoldsNothing == frame.pc = "idle" => balance[Store] = 0

(* C7: on an active free app every top-level purchaseApp succeeds, for any *)
(* caller and any number of times; it adds exactly 1 to totalDownloads and *)
(* changes nothing else of the storage: no Purchase record, no purchase    *)
(* flag set, totalRevenue as before.                                       *)
C7_FreeDownload ==
    [][ (/\ Immediate("purchaseApp")
         /\ frame.pc = "idle"
         /\ apps[last'.args.slug].exists
         /\ apps[last'.args.slug].active
         /\ apps[last'.args.slug].priceWei = 0)
        => /\ last'.result = Ok
           /\ apps'[last'.args.slug].totalDownloads
                 = apps[last'.args.slug].totalDownloads + 1
           /\ apps'[last'.args.slug].totalRevenue = apps[last'.args.slug].totalRevenue
           /\ \A s \in Slugs : s # last'.args.slug => apps'[s] = apps[s]
           /\ purchases' = purchases
           /\ hasPurchased' = hasPurchased
           /\ ~hasPurchased[last'.sender][last'.args.slug]
                 => ~hasPurchased'[last'.sender][last'.args.slug]
      ]_vars

C7_Witness ==
    /\ last.op = "purchaseApp"
    /\ last.result = Ok
    /\ apps[last.args.slug].priceWei = 0
    /\ apps[last.args.slug].totalDownloads = 2
    /\ purchases[last.args.slug] = <<>>
    /\ ~hasPurchased[last.sender][last.args.slug]

(* C8: while an app is deactivated every purchaseApp on it fails and       *)
(* changes nothing, with Inactive for every top-level call, whoever calls  *)
(* with whatever value and whatever the price; only setAppStatus(slug,     *)
(* true) reactivates it; no paid purchase starts on a deactivated app;     *)
(* setAppStatus leaves the Version and Purchase records as they were, and  *)
(* getApp and getVersion return the stored data of a deactivated app.      *)
C8_Deactivated ==
    [][ /\ (/\ Immediate("purchaseApp")
            /\ apps[last'.args.slug].exists
            /\ ~apps[last'.args.slug].active)
            => /\ last'.result # Ok
               /\ UNCHANGED <<storage, balance>>
               /\ frame.pc = "idle" => last'.result = Inactive
        /\ Starts => apps[frame'.slug].active
        /\ \A s \in Slugs :
              (apps[s].exists /\ ~apps[s].active /\ apps'[s].active)
                  => \/ /\ Immediate("setAppStatus")
                        /\ last'.result = Ok
                        /\ last'.args = [slug |-> s, active |-> TRUE]
                     \/ Reverts
        /\ (Immediate("setAppStatus") /\ last'.result = Ok)
              => /\ versions' = versions
                 /\ purchases' = purchases
                 /\ hasPurchased' = hasPurchased
        /\ \A s \in Slugs :
              (apps'[s].exists /\ ~apps'[s].active)
                  => /\ getApp(s)' = apps'[s]
                     /\ \A i \in 0..(Len(versions'[s]) - 1) :
                           getVersion(s, i)' = versions'[s][i + 1]
      ]_vars

C8_Witness ==
    /\ last.op = "purchaseApp"
    /\ last.result = Inactive
    /\ apps[last.args.slug].priceWei > 0
    /\ last.args.value >= apps[last.args.slug].priceWei
    /\ ~hasPurchased[last.sender][last.args.slug]
    /\ Len(purchases[last.args.slug]) = 1

(* C9: when a transfer of a paid purchaseApp fails the call fails with     *)
(* TransferFailed and the storage and every balance are those of before    *)
(* the call: the flag of the caller is not set, no Purchase record is      *)
(* added, the counters are as before, the earlier transfers are undone,    *)
(* and the lock is free.                                                   *)
C9_TransferFailureReverts ==
    [][ /\ Starts
            => saved' = <<[apps |-> apps, versions |-> versions,
                           hasPurchased |-> hasPurchased, purchases |-> purchases,
                           platformFee |-> platformFee, feeCollector |-> feeCollector,
                           totalApps |-> totalApps, balance |-> balance]>>
        /\ (frame.pc # "idle" /\ frame'.pc # "idle") => saved' = saved
        /\ Reverts
            => /\ last'.result \in TransferFailed
               /\ last'.op = "purchaseApp"
               /\ apps' = saved[1].apps
               /\ versions' = saved[1].versions
               /\ hasPurchased' = saved[1].hasPurchased
               /\ purchases' = saved[1].purchases
               /\ platformFee' = saved[1].platformFee
               /\ feeCollector' = saved[1].feeCollector
               /\ totalApps' = saved[1].totalApps
               /\ balance' = saved[1].balance
               /\ ~hasPurchased'[frame.sender][frame.slug]
               /\ Len(purchases'[frame.slug]) = Len(purchases[frame.slug]) - 1
               /\ apps'[frame.slug].totalDownloads = apps[frame.slug].totalDownloads - 1
               /\ apps'[frame.slug].totalRevenue
                     = apps[frame.slug].totalRevenue - frame.price
               /\ ~entered'
      ]_vars

C9_Witness ==
    /\ last.op = "purchaseApp"
    /\ last.result = RefundFailed
    /\ platformFee > 0
    /\ ~hasPurchased[last.sender][last.args.slug]
    /\ purchases[last.args.slug] = <<>>
    /\ apps[last.args.slug].totalRevenue = 0
    /\ balance[Store] = 0

(* C10: a purchaseApp called from the callback of a transfer of a          *)
(* purchaseApp in flight, for the same or another slug, is rejected by the *)
(* lock and changes nothing; the lock is held exactly while a purchaseApp  *)
(* is in flight, so it is free when the call has ended, by success or by   *)
(* revert, and no top-level purchaseApp is rejected by it.                 *)
C10_NonReentrant ==
    [][ /\ (Immediate("purchaseApp") /\ frame.pc # "idle")
            => /\ last'.result = Reentrant
               /\ UNCHANGED <<storage, balance, entered, saved>>
               /\ frame' = [frame EXCEPT !.nested = @ + 1]
        /\ (Immediate("purchaseApp") /\ frame.pc = "idle") => last'.result # Reentrant
        /\ entered' = (frame'.pc # "idle")
        /\ (Completes \/ Reverts) => ~entered'
      ]_vars

C10_Witness ==
    /\ frame.pc = "refund"
    /\ last.op = "purchaseApp"
    /\ last.result = Reentrant
    /\ last.sender = frame.sender
    /\ last.args.slug = frame.slug

RECURSIVE SumPricePaid(_)
SumPricePaid(ps) == IF ps = <<>> THEN 0 ELSE ps[1].pricePaid + SumPricePaid(Tail(ps))

(* C12: the totalRevenue of every app is the sum of pricePaid over its     *)
(* Purchase records; the pricePaid of a record is the price of the app     *)
(* when the purchase was made, not the value attached; a free download, a  *)
(* call that fails a check and updatePrice leave totalRevenue and the      *)
(* records as they were, and only a paid purchase (or its revert) changes  *)
(* them.                                                                   *)
C12_RevenueIsSumOfPricePaid ==
    [][ /\ \A s \in Slugs : apps'[s].totalRevenue = SumPricePaid(purchases'[s])
        /\ Starts
            => /\ purchases'[frame'.slug][Len(purchases'[frame'.slug])].pricePaid
                     = apps[frame'.slug].priceWei
               /\ apps'[frame'.slug].totalRevenue
                     = apps[frame'.slug].totalRevenue + apps[frame'.slug].priceWei
        /\ (\E s \in Slugs : apps'[s].totalRevenue # apps[s].totalRevenue
                                \/ purchases'[s] # purchases[s])
            => (Starts \/ Reverts)
        /\ (Immediate("purchaseApp") \/ Immediate("updatePrice"))
            => /\ \A s \in Slugs : apps'[s].totalRevenue = apps[s].totalRevenue
               /\ purchases' = purchases
      ]_vars

C12_Witness ==
    /\ last.op = "purchaseApp"
    /\ last.result = Ok
    /\ last.args.value = 51
    /\ purchases[last.args.slug]
          = <<[buyer |-> last.sender, timestamp |-> now, pricePaid |-> 50]>>
    /\ apps[last.args.slug].totalRevenue = 50

(******************************* access gate *******************************)

(* C24: a call that fails an authorization or moderation check and also a  *)
(* validation of its own reports the former: publishVersion by a caller    *)
(* who is not the publisher reports NotAuthorized also when the content    *)
(* reference is empty or the version code is not above the last one;       *)
(* deprecateVersion by such a caller also when the index is out of range;  *)
(* a top-level purchaseApp on a deactivated paid app reports Inactive also *)
(* when the caller has already purchased or the payment is short; the      *)
(* admin functions report NotAuthorized to another caller also when the    *)
(* fee is above the maximum or the collector is the zero address.          *)
C24_GateChecksFirst ==
    [][ /\ (/\ Immediate("publishVersion")
            /\ apps[last'.args.slug].exists
            /\ last'.sender # apps[last'.args.slug].publisher
            /\ \/ last'.args.manifestCid = ""
               \/ last'.args.versionCode
                     <= versions[last'.args.slug][Len(versions[last'.args.slug])].versionCode)
            => last'.result \in NotAuthorized
        /\ (/\ Immediate("deprecateVersion")
            /\ apps[last'.args.slug].exists
            /\ last'.sender # apps[last'.args.slug].publisher
            /\ last'.args.versionIndex >= Len(versions[last'.args.slug]))
            => last'.result \in NotAuthorized
        /\ (/\ Immediate("purchaseApp")
            /\ frame.pc = "idle"
            /\ apps[last'.args.slug].exists
            /\ ~apps[last'.args.slug].active
            /\ apps[last'.args.slug].priceWei > 0
            /\ \/ hasPurchased[last'.sender][last'.args.slug]
               \/ last'.args.value < apps[last'.args.slug].priceWei)
            => last'.result = Inactive
        /\ (Immediate("setPlatformFee") /\ last'.sender # owner /\ last'.args.newFee > 1000)
            => last'.result \in NotAuthorized
        /\ (/\ Immediate("setFeeCollector")
            /\ last'.sender # owner
            /\ last'.args.newCollector = ZeroAddress)
            => last'.result \in NotAuthorized
      ]_vars

C24_Witness ==
    /\ last.op = "purchaseApp"
    /\ last.result = Inactive
    /\ hasPurchased[last.sender][last.args.slug]
    /\ last.args.value < apps[last.args.slug].priceWei
    /\ frame.pc = "idle"

(* C28: on a deactivated app the publisher's publishVersion (with a        *)
(* content reference and a version code above the last), updatePrice and   *)
(* deprecateVersion (with an index in range) succeed as on an active one   *)
(* and write the app: the version is appended and latestManifestCid set,   *)
(* the price is set, the version is deprecated; the app stays deactivated. *)
C28_ActiveGatesOnlyPurchase ==
    [][ /\ (/\ Immediate("publishVersion")
            /\ apps[last'.args.slug].exists
            /\ ~apps[last'.args.slug].active
            /\ last'.sender = apps[last'.args.slug].publisher
            /\ last'.args.manifestCid # ""
            /\ last'.args.versionCode
                  > versions[last'.args.slug][Len(versions[last'.args.slug])].versionCode)
            => /\ last'.result = Ok
               /\ Len(versions'[last'.args.slug]) = Len(versions[last'.args.slug]) + 1
               /\ apps'[last'.args.slug].latestManifestCid = last'.args.manifestCid
               /\ ~apps'[last'.args.slug].active
        /\ (/\ Immediate("updatePrice")
            /\ apps[last'.args.slug].exists
            /\ ~apps[last'.args.slug].active
            /\ last'.sender = apps[last'.args.slug].publisher)
            => /\ last'.result = Ok
               /\ apps'[last'.args.slug].priceWei = last'.args.newPriceWei
               /\ ~apps'[last'.args.slug].active
        /\ (/\ Immediate("deprecateVersion")
            /\ apps[last'.args.slug].exists
            /\ ~apps[last'.args.slug].active
            /\ last'.sender = apps[last'.args.slug].publisher
            /\ last'.args.versionIndex < Len(versions[last'.args.slug]))
            => /\ last'.result = Ok
               /\ versions'[last'.args.slug][last'.args.versionIndex + 1].deprecated
               /\ ~apps'[last'.args.slug].active
      ]_vars

C28_Witness ==
    /\ last.op = "publishVersion"
    /\ last.result = Ok
    /\ ~apps[last.args.slug].active
    /\ apps[last.args.slug].latestManifestCid = "c2"
    /\ apps[last.args.slug].priceWei = 50
    /\ versions[last.args.slug][1].deprecated
    /\ Len(versions[last.args.slug]) = 2

(* C13: publishVersion on a registered app by anyone but its publisher,    *)
(* the contract owner included, fails with NotAuthorized whatever the      *)
(* content reference and the version code, and leaves the version list and *)
(* latestManifestCid (the whole storage) as they were; publishVersion on   *)
(* an unregistered slug fails with NotFound; a publishVersion that         *)
(* succeeds was called by the publisher.                                   *)
C13_PublisherOnly ==
    [][ /\ (/\ Immediate("publishVersion")
            /\ apps[last'.args.slug].exists
            /\ last'.sender # apps[last'.args.slug].publisher)
            => /\ last'.result \in NotAuthorized
               /\ versions' = versions
               /\ apps' = apps
               /\ UNCHANGED <<storage, balance>>
        /\ (Immediate("publishVersion") /\ ~apps[last'.args.slug].exists)
            => (last'.result = NotFound /\ UNCHANGED <<storage, balance>>)
        /\ (Immediate("publishVersion") /\ last'.result = Ok)
            => last'.sender = apps[last'.args.slug].publisher
      ]_vars

C13_Witness ==
    /\ last.op = "publishVersion"
    /\ last.result \in NotAuthorized
    /\ last.sender = owner
    /\ apps[last.args.slug].publisher # owner
    /\ last.args.manifestCid # ""
    /\ last.args.versionCode > versions[last.args.slug][Len(versions[last.args.slug])].versionCode

(* the versions of vs that are not deprecated, in list order *)
NotDeprecated(vs) == SelectSeq(vs, LAMBDA v : ~v.deprecated)

(* C14 as stated: the latestManifestCid of a registered app is the content *)
(* reference of the most recently appended version that is not deprecated. *)
C14_LatestIsLastNotDeprecated ==
    \A s \in Slugs :
        (apps[s].exists /\ NotDeprecated(versions[s]) # <<>>)
            => apps[s].latestManifestCid
                  = NotDeprecated(versions[s])[Len(NotDeprecated(versions[s]))].manifestCid

(* C14, amended: the latestManifestCid of a registered app is the content  *)
(* reference of the most recently appended version, deprecated or not:     *)
(* registerApp and publishVersion set it to the reference they append,     *)
(* and deprecateVersion leaves it as it was, also when it deprecates the   *)
(* last version.                                                           *)
C14_LatestIsLastAppended ==
    [][ /\ \A s \in Slugs :
              apps'[s].exists
                  => /\ Len(versions'[s]) > 0
                     /\ apps'[s].latestManifestCid
                           = versions'[s][Len(versions'[s])].manifestCid
        /\ ((Immediate("registerApp") \/ Immediate("publishVersion")) /\ last'.result = Ok)
              => apps'[last'.args.slug].latestManifestCid = last'.args.manifestCid
        /\ Immediate("deprecateVersion") => apps' = apps
      ]_vars

C14_Witness ==
    /\ last.op = "deprecateVersion"
    /\ last.result = Ok
    /\ Len(versions[last.args.slug]) = 2
    /\ last.args.versionIndex = 1
    /\ versions[last.args.slug][2].deprecated
    /\ ~versions[last.args.slug][1].deprecated
    /\ versions[last.args.slug][1].manifestCid # versions[last.args.slug][2].manifestCid
    /\ apps[last.args.slug].latestManifestCid = versions[last.args.slug][2].manifestCid

(* C15: updatePrice succeeds only for the publisher of the app; from any   *)
(* other caller it fails with NotAuthorized and changes nothing; when it   *)
(* succeeds it writes the priceWei of that app and nothing else: the       *)
(* Purchase records, the purchase flags, totalRevenue, totalDownloads and  *)
(* the balances are as before; a paid purchase is charged and recorded at  *)
(* the price the app has when it is made, the last one set.                *)
C15_UpdatePriceOnlyPrice ==
    [][ /\ (/\ Immediate("updatePrice")
            /\ apps[last'.args.slug].exists
            /\ last'.sender # apps[last'.args.slug].publisher)
            => /\ last'.result \in NotAuthorized
               /\ UNCHANGED <<storage, balance>>
        /\ (Immediate("updatePrice") /\ last'.result = Ok)
            => /\ last'.sender = apps[last'.args.slug].publisher
               /\ apps'[last'.args.slug].priceWei = last'.args.newPriceWei
               /\ apps' = [apps EXCEPT ![last'.args.slug].priceWei = last'.args.newPriceWei]
               /\ UNCHANGED <<versions, hasPurchased, purchases, platformFee, feeCollector,
                              totalApps, balance>>
        /\ Starts
            => /\ frame'.price = apps[frame'.slug].priceWei
               /\ frame'.value >= apps[frame'.slug].priceWei
               /\ purchases'[frame'.slug]
                     = Append(purchases[frame'.slug],
                              [buyer |-> frame'.sender, timestamp |-> now,
                               pricePaid |-> apps[frame'.slug].priceWei])
      ]_vars

C15_Witness ==
    /\ last.op = "updatePrice"
    /\ last.result = Ok
    /\ last.args.newPriceWei = 0
    /\ apps[last.args.slug].priceWei = 0
    /\ purchases[last.args.slug] = <<[buyer |-> "bob", timestamp |-> now, pricePaid |-> 50]>>
    /\ hasPurchased["bob"][last.args.slug]
    /\ apps[last.args.slug].totalRevenue = 50
    /\ frame.pc = "idle"

(* C16: setAppStatus succeeds only for the contract owner and only on a    *)
(* registered slug: any other caller, the publisher of the app included,   *)
(* fails with NotAuthorized, and the owner on an unregistered slug with    *)
(* NotFound, nothing changed; when it succeeds the active flag of that app *)
(* is the argument and nothing else changes: not the other fields of the   *)
(* app, not the other app, no Version, no Purchase, no purchase flag, not  *)
(* the fee, the fee collector or the app counter, no balance.              *)
C16_SetAppStatusOnlyActive ==
    [][ /\ (Immediate("setAppStatus") /\ last'.sender # owner)
            => /\ last'.result \in NotAuthorized
               /\ UNCHANGED <<storage, balance>>
        /\ (Immediate("setAppStatus") /\ last'.sender = owner
                                      /\ ~apps[last'.args.slug].exists)
            => /\ last'.result = NotFound
               /\ UNCHANGED <<storage, balance>>
        /\ (Immediate("setAppStatus") /\ last'.result = Ok)
            => /\ last'.sender = owner
               /\ apps[last'.args.slug].exists
               /\ apps'[last'.args.slug].active = last'.args.active
               /\ apps'[last'.args.slug]
                     = [apps[last'.args.slug] EXCEPT !.active = last'.args.active]
               /\ \A s \in DOMAIN apps : s # last'.args.slug => apps'[s] = apps[s]
               /\ UNCHANGED <<versions, hasPurchased, purchases, platformFee, feeCollector,
                              totalApps, balance>>
      ]_vars

C16_Witness ==
    /\ last.op = "setAppStatus"
    /\ last.result = Ok
    /\ last.args = [slug |-> "a", active |-> FALSE]
    /\ ~apps["a"].active
    /\ apps["a"].publisher = "alice"
    /\ Len(purchases["a"]) = 1
    /\ apps["b"].exists
    /\ apps["b"].active
    /\ Len(versions["b"]) = 2

(* C17: deprecateVersion succeeds only for the publisher of the app and    *)
(* only for an index below the version count: another caller fails with    *)
(* NotAuthorized and the publisher with an index out of range with         *)
(* InvalidIndex, nothing changed; when it succeeds the version at that     *)
(* index (from 0) is deprecated and nothing else changes: the other        *)
(* versions, the other fields of that version, the version count,          *)
(* latestManifestCid and the rest of the app are as before.                *)
C17_DeprecateOnlyFlag ==
    [][ /\ (/\ Immediate("deprecateVersion")
            /\ apps[last'.args.slug].exists
            /\ last'.sender # apps[last'.args.slug].publisher)
            => /\ last'.result \in NotAuthorized
               /\ UNCHANGED <<storage, balance>>
        /\ (/\ Immediate("deprecateVersion")
            /\ apps[last'.args.slug].exists
            /\ last'.sender = apps[last'.args.slug].publisher
            /\ last'.args.versionIndex >= Len(versions[last'.args.slug]))
            => /\ last'.result = InvalidIndex
               /\ UNCHANGED <<storage, balance>>
        /\ (Immediate("deprecateVersion") /\ last'.result = Ok)
            => /\ last'.sender = apps[last'.args.slug].publisher
               /\ last'.args.versionIndex < Len(versions[last'.args.slug])
               /\ Len(versions'[last'.args.slug]) = Len(versions[last'.args.slug])
               /\ \A i \in 1..Len(versions[last'.args.slug]) :
                     versions'[last'.args.slug][i]
                        = IF i = last'.args.versionIndex + 1
                          THEN [versions[last'.args.slug][i] EXCEPT !.deprecated = TRUE]
                          ELSE versions[last'.args.slug][i]
               /\ \A s \in DOMAIN versions : s # last'.args.slug => versions'[s] = versions[s]
               /\ apps' = apps
               /\ UNCHANGED <<hasPurchased, purchases, platformFee, feeCollector,
                              totalApps, balance>>
      ]_vars

C17_Witness ==
    /\ last.op = "deprecateVersion"
    /\ last.result = Ok
    /\ last.args.versionIndex = 1
    /\ Len(versions[last.args.slug]) = 3
    /\ ~versions[last.args.slug][1].deprecated
    /\ versions[last.args.slug][2].deprecated
    /\ ~versions[last.args.slug][3].deprecated
    /\ apps[last.args.slug].latestManifestCid = versions[last.args.slug][3].manifestCid
    /\ versions[last.args.slug][2].manifestCid # versions[last.args.slug][3].manifestCid

(***************************** global configuration ************************)

(* C23: feeCollector is the deployer at deployment; platformFee and        *)
(* feeCollector change only in a setPlatformFee or a setFeeCollector call  *)
(* of the contract owner that succeeds (and go back when a purchaseApp     *)
(* within which they were changed reverts); the same calls by anyone else  *)
(* fail with NotAuthorized and change nothing; setFeeCollector rejects the *)
(* zero address and otherwise sets the collector to its argument.          *)
C23_ConfigOwnerOnly ==
    /\ feeCollector = owner
    /\ [][ /\ platformFee' # platformFee
               => \/ /\ Immediate("setPlatformFee")
                     /\ last'.sender = owner
                     /\ last'.result = Ok
                     /\ feeCollector' = feeCollector
                  \/ Reverts /\ platformFee' = saved[1].platformFee
           /\ feeCollector' # feeCollector
               => \/ /\ Immediate("setFeeCollector")
                     /\ last'.sender = owner
                     /\ last'.result = Ok
                     /\ platformFee' = platformFee
                  \/ Reverts /\ feeCollector' = saved[1].feeCollector
           /\ ((Immediate("setPlatformFee") \/ Immediate("setFeeCollector"))
                   /\ last'.sender # owner)
               => /\ last'.result \in NotAuthorized
                  /\ UNCHANGED <<storage, balance>>
           /\ (Immediate("setFeeCollector") /\ last'.sender = owner)
               => IF last'.args.newCollector = ZeroAddress
                  THEN last'.result = InvalidAddress /\ UNCHANGED <<storage, balance>>
                  ELSE last'.result = Ok /\ feeCollector' = last'.args.newCollector
           /\ feeCollector' # ZeroAddress
         ]_vars

C23_Witness ==
    /\ last.op = "setFeeCollector"
    /\ last.sender = feeCollector
    /\ last.sender # owner
    /\ last.result \in NotAuthorized
    /\ last.args.newCollector # feeCollector
    /\ platformFee = 0

(* C18: platformFee is 250 at deployment and within 0..1000 in every       *)
(* state; setPlatformFee with a fee above 1000 fails and leaves it as it   *)
(* was, and the owner's setPlatformFee with a fee up to 1000 sets it to    *)
(* that fee; so in every paid purchase 0 <= fee <= price and               *)
(* publisherAmount = price - fee is not negative.                          *)
C18_FeeWithinBounds ==
    /\ platformFee = 250
    /\ [][ /\ platformFee' \in 0..1000
           /\ (Immediate("setPlatformFee") /\ last'.args.newFee > 1000)
               => /\ last'.result # Ok
                  /\ last'.sender = owner => last'.result = FeeTooHigh
                  /\ UNCHANGED <<storage, balance>>
           /\ (Immediate("setPlatformFee") /\ last'.args.newFee <= 1000
                                           /\ last'.sender = owner)
               => /\ last'.result = Ok
                  /\ platformFee' = last'.args.newFee
           /\ Starts
               => /\ 0 <= frame'.fee
                  /\ frame'.fee <= frame'.price
                  /\ frame'.publisherAmount >= 0
                  /\ 10 * frame'.fee <= frame'.price
         ]_vars

C18_Witness ==
    /\ last.op = "setPlatformFee"
    /\ last.sender = owner
    /\ last.args.newFee = 1001
    /\ last.result = FeeTooHigh
    /\ platformFee = 1000
    /\ balance[owner] = 5

(* C19: a registerApp(slug, manifestCid, priceWei, versionCode) that       *)
(* succeeds creates the app with the caller as publisher, the price given  *)
(* (0 included), latestManifestCid = manifestCid, both counters 0 and      *)
(* active, with a version list of the one version (manifestCid,            *)
(* versionCode, not deprecated); it adds 1 to totalApps, emits             *)
(* AppRegistered and then VersionPublished, and changes nothing else.  On  *)
(* an unregistered slug it fails with EmptySlug when the slug is empty,    *)
(* with EmptyContentRef when the slug is not empty and the reference is,   *)
(* and succeeds otherwise.                                                 *)
C19_RegisterApp ==
    [][ /\ (Immediate("registerApp") /\ last'.result = Ok)
            => /\ apps'[last'.args.slug]
                     = [publisher |-> last'.sender,
                        slug |-> last'.args.slug,
                        latestManifestCid |-> last'.args.manifestCid,
                        priceWei |-> last'.args.priceWei,
                        totalDownloads |-> 0, totalRevenue |-> 0,
                        exists |-> TRUE, active |-> TRUE, createdAt |-> now]
               /\ versions'[last'.args.slug]
                     = <<[manifestCid |-> last'.args.manifestCid,
                          timestamp |-> now,
                          versionCode |-> last'.args.versionCode,
                          deprecated |-> FALSE]>>
               /\ totalApps' = totalApps + 1
               /\ emitted'
                     = <<[event |-> "AppRegistered",
                          args |-> <<last'.args.slug, last'.args.slug, last'.sender,
                                     last'.args.manifestCid, last'.args.priceWei>>],
                         [event |-> "VersionPublished",
                          args |-> <<last'.args.slug, last'.args.manifestCid,
                                     last'.args.versionCode>>]>>
               /\ \A s \in DOMAIN apps :
                     s # last'.args.slug => (apps'[s] = apps[s] /\ versions'[s] = versions[s])
               /\ UNCHANGED <<hasPurchased, purchases, platformFee, feeCollector, balance>>
        /\ (Immediate("registerApp") /\ ~apps[last'.args.slug].exists)
            => /\ last'.result = IF last'.args.slug = "" THEN EmptySlug
                                 ELSE IF last'.args.manifestCid = "" THEN EmptyContentRef
                                 ELSE Ok
               /\ last'.result # Ok => (UNCHANGED <<storage, balance>> /\ emitted' = <<>>)
      ]_vars

C19_Witness ==
    /\ last.op = "registerApp"
    /\ last.result = Ok
    /\ last.sender = "alice"
    /\ last.args.priceWei = 0
    /\ apps[last.args.slug].publisher = "alice"
    /\ totalApps = 1
    /\ Len(emitted) = 2

(******************************* all or nothing ****************************)

Operations ==
    {"registerApp", "publishVersion", "purchaseApp", "updatePrice", "deprecateVersion",
     "setAppStatus", "setPlatformFee", "setFeeCollector"}

Preconditions ==
    {DuplicateSlug, EmptySlug, EmptyContentRef, NotFound, NotPublisher, NotOwner,
     NonMonotonicVersion, InvalidIndex, Inactive, AlreadyPurchased, InsufficientPayment,
     FeeTooHigh, InvalidAddress, Reentrant}

(* C20: a call of any operation that fails a precondition leaves the whole *)
(* state as it was before the call: the apps, the versions, the purchase   *)
(* flags and the purchase history, the counters, the fee and the fee       *)
(* collector, every balance (the value attached is not taken), the lock,   *)
(* and no event is emitted; a call that returns without having reached a   *)
(* transfer fails with a precondition or succeeds.                         *)
C20_FailureChangesNothing ==
    [][ \A op \in Operations :
          Immediate(op)
            => /\ last'.result \in Preconditions \cup {Ok}
               /\ last'.result # Ok
                    => /\ apps' = apps
                       /\ versions' = versions
                       /\ hasPurchased' = hasPurchased
                       /\ purchases' = purchases
                       /\ totalApps' = totalApps
                       /\ platformFee' = platformFee
                       /\ feeCollector' = feeCollector
                       /\ balance' = balance
                       /\ entered' = entered
                       /\ saved' = saved
                       /\ emitted' = <<>>
      ]_vars

C20_Witness ==
    /\ last.op = "purchaseApp"
    /\ last.result = Inactive
    /\ last.sender = "bob"
    /\ last.args.value = 51
    /\ apps[last.args.slug].priceWei = 50
    /\ balance["bob"] = 60
    /\ balance[Store] = 0

(******************************** immutability *****************************)

(* C21: the version list of every app is append-only: in every step the    *)
(* count does not decrease and every version already in the list keeps its *)
(* manifestCid, its versionCode and its timestamp; only its deprecated     *)
(* flag can change, and only to true; a version is stamped with the time   *)
(* of the call that appends it.  (The revert of a purchaseApp returns the  *)
(* lists to what they were when that transaction began.)                   *)
C21_VersionsAppendOnly ==
    [][ /\ ~Reverts
            => \A s \in DOMAIN versions :
                  /\ Len(versions'[s]) >= Len(versions[s])
                  /\ \A i \in 1..Len(versions[s]) :
                        /\ versions'[s][i].manifestCid = versions[s][i].manifestCid
                        /\ versions'[s][i].versionCode = versions[s][i].versionCode
                        /\ versions'[s][i].timestamp = versions[s][i].timestamp
                        /\ versions[s][i].deprecated => versions'[s][i].deprecated
        /\ Reverts => versions' = saved[1].versions
        /\ \A s \in DOMAIN versions :
              Len(versions'[s]) > Len(versions[s])
                  => /\ Len(versions'[s]) = Len(versions[s]) + 1
                     /\ versions'[s][Len(versions'[s])].timestamp = now
                     /\ ~versions'[s][Len(versions'[s])].deprecated
      ]_vars

C21_Witness ==
    /\ last.op = "deprecateVersion"
    /\ last.result = Ok
    /\ last.args.versionIndex = 0
    /\ now = 3
    /\ Len(versions[last.args.slug]) = 2
    /\ versions[last.args.slug][1].timestamp = 1
    /\ versions[last.args.slug][1].deprecated
    /\ versions[last.args.slug][2].timestamp = 2

(* C22: a registered app stays registered and keeps its slug, its          *)
(* publisher and its createdAt in every step, whoever calls whatever       *)
(* operation; the slug of the record is the slug it is registered under    *)
(* and createdAt the time of the registerApp call.  (The revert of a       *)
(* purchaseApp takes back an app that was registered within that           *)
(* transaction.)                                                           *)
C22_AppIdentityImmutable ==
    [][ \A s \in DOMAIN apps :
          /\ (apps[s].exists /\ apps'[s].exists)
                => /\ apps'[s].slug = apps[s].slug
                   /\ apps'[s].publisher = apps[s].publisher
                   /\ apps'[s].createdAt = apps[s].createdAt
          /\ (apps[s].exists /\ ~apps'[s].exists)
                => (Reverts /\ ~saved[1].apps[s].exists)
          /\ (~apps[s].exists /\ apps'[s].exists)
                => /\ Immediate("registerApp")
                   /\ last'.result = Ok
                   /\ apps'[s].slug = s
                   /\ apps'[s].publisher = last'.sender
                   /\ apps'[s].createdAt = now
      ]_vars

C22_Witness ==
    /\ last.op = "setAppStatus"
    /\ last.sender = owner
    /\ last.result = Ok
    /\ now = 3
    /\ apps[last.args.slug].createdAt = 1
    /\ apps[last.args.slug].publisher = "alice"
    /\ apps[last.args.slug].slug = "a"
    /\ ~apps[last.args.slug].active
    /\ apps[last.args.slug].priceWei = 50
    /\ apps[last.args.slug].latestManifestCid = "c2"
    /\ apps[last.args.slug].totalDownloads = 2
    /\ apps[last.args.slug].totalRevenue = 50

====
